---- MODULE Spec2Model ----
(***************************************************************************)
(* Model of the preschool customer management front-end services.          *)
(*                                                                         *)
(* GoogleSheetsService (src/src/services/googleSheetsApi.ts): the record   *)
(* retrieval path getCustomers / fetchFromGoogleSheetsWithRetry with the   *)
(* minimum call interval, the exponential backoff and the local-storage    *)
(* fallback, and the write path updateCustomer / updateCustomerInSheets.   *)
(*                                                                         *)
(* The backend (src/server.js), the browser's ApiService                   *)
(* (src/src/services/apiService.ts), the handlers of the list and detail   *)
(* views that call it, and PhotoService (src/unnamed/part_000).  An        *)
(* Express handler runs to its response without interruption, and the      *)
(* continuation of the browser call reads the response only: one HTTP      *)
(* exchange, with what the caller makes of it, is one action.              *)
(*                                                                         *)
(* JavaScript is single threaded: a call runs without interruption up to   *)
(* its next await on a timer or on the network.  Each action below is one  *)
(* such run of one caller.  Time advances in steps of Tick milliseconds;   *)
(* a timer set with setTimeout(ms) may fire at any instant not earlier     *)
(* than its due time, and a network reply may arrive at any instant.       *)
(* The clock is kept in relative form: the code reads Date.now() only to   *)
(* form Date.now() - this.lastApiCall, and a timer only by the time left.  *)
(* The continuations that run between two such awaits (the return through  *)
(* fetchFromGoogleSheets, fetchFromGoogleSheetsWithRetry and getCustomers) *)
(* are one step.  localStorage is taken to accept every write, and the     *)
(* JSON round trip of the stored array to give the array back.             *)
(***************************************************************************)
EXTENDS Integers, Sequences, FiniteSets, TLC

(* ------------------------------ bounds --------------------------------- *)

\* Number of logical callers that use the one service instance.
NumCallers == 2

\* Largest number of data rows of a source grid in an initial state.
MaxRows == 1

\* Clock granularity (ms).
Tick == 500

\* Largest number of data rows of a source grid in the single-caller runs.
MaxGridRows == 3

\* Largest number of data rows of a grid handed to parseSheetData alone.
MaxParseRows == 3

\* Largest customer number the backend hands out.
MaxCustomers == 2

\* Number of photo identifiers.
MaxPhotos == 2

\* Largest number of uploads waiting for their file to be read.
MaxUploads == 2

\* How far below the photo limit of a customer the fullest storages start.
NearCap == 1

(* ------------------------- program constants --------------------------- *)

MAX_RETRIES == 3

RETRY_DELAY == 2000

MIN_API_INTERVAL == 1000

MAX_PHOTOS_PER_CUSTOMER == 50

MAX_FILE_SIZE == 5 * 1024 * 1024

Callers == 1..NumCallers

(* ------------------------------ records -------------------------------- *)

Names == {"", "A"}

PetNames == {"P"}

\* A row of the source grid, reduced to the two cells the row filter reads
\* (column B, owner name, and column G, pet name); the other cells are
\* copied to the record unchanged and play no part in control flow.
Rows == [name : Names, petName : PetNames]

HeaderRow == [name |-> "NAME_HEADER", petName |-> "PET_HEADER"]

\* A row the remote source reports for a blank line: no cells.
BlankRow == [name |-> "", petName |-> ""]

RECURSIVE ToDigits(_)
\* String(n): the decimal digits of n >= 0.
ToDigits(n) == IF n < 10 THEN <<n>> ELSE Append(ToDigits(n \div 10), n % 10)

RECURSIVE PadStart(_, _, _)
\* s.padStart(len, fill)
PadStart(s, len, fill) ==
  IF Len(s) >= len THEN s ELSE PadStart(<<fill>> \o s, len, fill)

\* The identifier formed from the 0-based index itself.
CustomerIdFromIndex(index) == <<"C">> \o PadStart(ToDigits(index), 3, 0)

\* `C${String(index + 1).padStart(3, '0')}` for the 0-based index of a data row.
CustomerId(index) == <<"C">> \o PadStart(ToDigits(index + 1), 3, 0)

\* JavaScript truthiness of a string: the empty string alone is falsy.
Truthy(s) == s # ""

\* The record parseSheetData builds from data row `row` at 0-based `index`.
MakeCustomer(row, index) ==
  [id |-> CustomerId(index), name |-> row.name, petName |-> row.petName]

\* parseSheetData(values): header skipped, rows mapped by position, then the
\* rows without a name or a pet name dropped.
ParseSheetData(values) ==
  IF Len(values) < 2 THEN <<>>
  ELSE LET dataRows == SubSeq(values, 2, Len(values))
           mapped == [i \in 1..Len(dataRows) |-> MakeCustomer(dataRows[i], i - 1)]
       IN SelectSeq(mapped, LAMBDA cu : Truthy(cu.name) /\ Truthy(cu.petName))

\* findIndex with its -1 read as an index from the end of the array.
FindIndexOrLast(customers, id) ==
  IF \E i \in 1..Len(customers) : customers[i].id = id
  THEN (CHOOSE i \in 1..Len(customers) :
          /\ customers[i].id = id
          /\ \A j \in 1..(i - 1) : customers[j].id # id) - 1
  ELSE Len(customers) - 1

\* Array.prototype.findIndex on the id: the 0-based index, or -1.
FindIndex(customers, id) ==
  IF \E i \in 1..Len(customers) : customers[i].id = id
  THEN (CHOOSE i \in 1..Len(customers) :
          /\ customers[i].id = id
          /\ \A j \in 1..(i - 1) : customers[j].id # id) - 1
  ELSE -1

\* The value `null`: a record no customer equals (no customer has this id).
Null == [id |-> <<>>, name |-> "", petName |-> ""]

\* customers.find(customer => customer.id === id) || null
Find(customers, id) ==
  IF FindIndex(customers, id) = -1 THEN Null
  ELSE customers[FindIndex(customers, id) + 1]

(* --------------------------- remote replies ---------------------------- *)

\* What the spreadsheet endpoint can answer to one attempt.  An error
\* message is the sequence of the pieces the code concatenates.
Replies ==
  {[kind |-> "ok", status |-> "200", text |-> ""]}
    \cup {[kind |-> "infoFail", status |-> s, text |-> ""] : s \in {"429", "404"}}
    \cup {[kind |-> "httpFail", status |-> s, text |-> t] :
             s \in {"429", "403"}, t \in {"RATE_LIMIT_EXCEEDED", "PERMISSION_DENIED"}}
    \cup {[kind |-> "network", status |-> "", text |-> ""],
          [kind |-> "badJson", status |-> "", text |-> ""]}

\* The error fetchFromGoogleSheets throws for a reply that is not a success.
ErrorMessage(reply) ==
  CASE reply.kind = "infoFail" -> <<"Spreadsheet info request failed: ", reply.status>>
    [] reply.kind = "httpFail" ->
         <<"HTTP error! status: ", reply.status, ", message: ", reply.text>>
    [] reply.kind = "network" -> <<"Failed to fetch">>
    [] OTHER -> <<"Unexpected token < in JSON at position 0">>

\* error.message.includes('429') || error.message.includes('RATE_LIMIT_EXCEEDED')
IsRateLimit(message) ==
  \E i \in 1..Len(message) : message[i] \in {"429", "RATE_LIMIT_EXCEEDED"}

MaxRetriesError == <<"max retries reached">>

NotFoundError == <<"customer not found">>

RECURSIVE Pow2(_)
\* Math.pow(2, n)
Pow2(n) == IF n <= 0 THEN 1 ELSE 2 * Pow2(n - 1)

\* The exponent taken one too large.
BackoffDelayOffByOne(att) == RETRY_DELAY * Pow2(att)

\* RETRY_DELAY * Math.pow(2, attempt - 1)
BackoffDelay(att) == RETRY_DELAY * Pow2(att - 1)

(* ------------------------------- state --------------------------------- *)

VARIABLES
  env,            \* process.env.NODE_ENV
  spreadsheetId,  \* this.spreadsheetId
  apiKey,         \* this.apiKey
  sinceLast,      \* Date.now() - this.lastApiCall, capped at MIN_API_INTERVAL
  cache,          \* localStorage: the stored customer array ([] when absent)
  sheet,          \* the remote grid: data.values of the form-answer sheet
  pc,             \* per caller: where its call is suspended
  op,             \* per caller: the public method it called
  attempt,        \* per caller: the loop variable of the retry loop
  timer,          \* per caller: time left of the sleep() it is suspended on
  waitTime,       \* per caller: waitTime of the interval control (0: no wait)
  elapsed,        \* per caller: time since the instant its sleep counts from:
                  \* the lastApiCall it read on entry (interval control, capped
                  \* at MIN_API_INTERVAL) or the failed attempt (backoff,
                  \* capped at the delay asked for)
  delay,          \* per caller: the backoff delay it last asked sleep() for
  result,         \* per caller: how its call ended
  arg,            \* per caller: the record passed to updateCustomer
  rowNumber,      \* per caller: rowNumber of updateCustomerInSheets
  apiUrl,         \* which backend API_BASE_URL names: server.js, or another
  store,          \* backend: the array in data/customers.json
  photos,         \* localStorage: the stored photo array ([] when absent)
  uploads,        \* uploadPhoto calls waiting for fileToDataUrl
  view,           \* state of the views: customers, customer, error
  last            \* the latest exchange: request, response, what came of it

conf == <<env, spreadsheetId, apiKey>>

\* The state of GoogleSheetsService and of its remote source.
sheetsVars == <<env, spreadsheetId, apiKey, sinceLast, cache, sheet, pc, op,
                attempt, timer, waitTime, elapsed, delay, result, arg, rowNumber>>

\* The state of the backend, of the views and of PhotoService.
apiVars == <<apiUrl, store, photos, uploads, view, last>>

vars == <<env, spreadsheetId, apiKey, sinceLast, cache, sheet, pc, op,
          attempt, timer, waitTime, elapsed, delay, result, arg, rowNumber,
          apiUrl, store, photos, uploads, view, last>>

\* How a call ended: kind and val are the settled promise (returned value or
\* raised error); fetched tells whether val came from a successful attempt;
\* cycle and error tell how fetchFromGoogleSheetsWithRetry itself ended.
NoResult ==
  [kind |-> "none", val |-> <<>>, fetched |-> FALSE, cycle |-> "none",
   error |-> <<>>]

NoArg == [id |-> <<>>, name |-> "", petName |-> ""]

\* Grids with a header row and up to MaxRows data rows, and the sheet
\* without any value.
Grids ==
  {<<>>} \cup UNION {{<<HeaderRow>> \o d : d \in [1..n -> Rows]} : n \in 0..MaxRows}

\* The cache holds what an earlier session stored: the parse of some grid.
InitCaches == {ParseSheetData(g) : g \in Grids}

\* Identifiers a caller may name: those of the rows.
CallIds == {CustomerId(i) : i \in 0..(MaxRows - 1)}

\* Records a caller may pass to updateCustomer.
UpdateArgs == {[id |-> i, name |-> "B", petName |-> "P"] : i \in CallIds}

Min(a, b) == IF a <= b THEN a ELSE b

Max(a, b) == IF a >= b THEN a ELSE b

(* ------------------ exchanges with the backend: values ----------------- *)

\* An HTTP response: its status, the `error` text of its JSON body (<<>> when
\* the body has none), the customer records the body carries, whether the
\* body is the acknowledgement { success: true, ... }, and the id it names.
Resp(status, error, data, ack, id) ==
  [status |-> status, error |-> error, data |-> data, ack |-> ack, id |-> id]

NoResp == Resp("", <<>>, <<>>, FALSE, <<>>)

\* What a browser call made of a response: the value it returned or the
\* message of the error it raised.  isNull: the returned value is null;
\* success: the `success` flag of a PhotoUploadResult.
Outcome(kind, message, data, isNull, success) ==
  [kind |-> kind, message |-> message, data |-> data, isNull |-> isNull,
   success |-> success]

NoOutcome == Outcome("none", <<>>, <<>>, FALSE, FALSE)

\* The views before anything is loaded: useState([]), useState(null).
NoView == [customers |-> <<>>, customer |-> Null, error |-> ""]

\* A request without a body.
NoBody == <<>>

\* The latest operation: who ran it, the event and the script property a
\* run of the form relay was given, the requests it sent, the token and the
\* body of its request, the response, and what the caller got.
NoLast ==
  [who |-> "none", op |-> "none", id |-> <<>>, given |-> <<>>, sent |-> 0,
   token |-> "none", body |-> NoBody, resp |-> NoResp, outcome |-> NoOutcome]

\* No exchange with the backend and no photo: the state of these components
\* while GoogleSheetsService alone is followed.
ApiQuiet ==
  /\ apiUrl = "server"
  /\ store = <<>>
  /\ photos = <<>>
  /\ uploads = <<>>
  /\ view = NoView
  /\ last = NoLast

\* lastApiCall starts at 0 while Date.now() is an epoch time: the first call
\* of a service finds the interval expired.
Init ==
  /\ env \in {"production", "development"}
  /\ spreadsheetId \in {"", "sheet-id"}
  /\ apiKey \in {"", "api-key"}
  /\ Truthy(spreadsheetId) \/ Truthy(apiKey)
  /\ sinceLast = MIN_API_INTERVAL
  /\ cache \in InitCaches
  /\ sheet \in Grids
  /\ pc = [c \in Callers |-> "idle"]
  /\ op = [c \in Callers |-> "none"]
  /\ attempt = [c \in Callers |-> 0]
  /\ timer = [c \in Callers |-> 0]
  /\ waitTime = [c \in Callers |-> 0]
  /\ elapsed = [c \in Callers |-> 0]
  /\ delay = [c \in Callers |-> 0]
  /\ result = [c \in Callers |-> NoResult]
  /\ arg = [c \in Callers |-> NoArg]
  /\ rowNumber = [c \in Callers |-> 0]
  /\ ApiQuiet

\* The condition of the production branch of getCustomers (line 31).
UseFallback == env = "production" /\ Truthy(spreadsheetId) /\ Truthy(apiKey)

\* getLocalCustomers(): the stored array, [] when nothing is stored.
GetLocalCustomers == cache

(* --------------------- fetchFromGoogleSheets (one attempt) -------------- *)

\* What one attempt yields for a reply of the endpoint, the grid being read
\* when the reply is produced: the parsed records, or the thrown error.
FetchFromGoogleSheets(reply, values) ==
  IF reply.kind = "ok"
  THEN [ok |-> TRUE, data |-> ParseSheetData(values), error |-> <<>>]
  ELSE [ok |-> FALSE, data |-> <<>>, error |-> ErrorMessage(reply)]

\* The endpoint serves a request only if it names a sheet and carries a key;
\* a request built from an empty id or key is refused.
Served == Truthy(spreadsheetId) /\ Truthy(apiKey)

(* ----------------------------- getCustomers ----------------------------- *)

\* The time already elapsed taken for the time still to wait.
WaitTimeElapsed(timeSinceLastCall) == timeSinceLastCall

\* waitTime of the interval control (line 60).
WaitTime(timeSinceLastCall) == MIN_API_INTERVAL - timeSinceLastCall

\* `this.lastApiCall = Date.now()` and the request of attempt number `att`.
StartAttempt(c, att) ==
  /\ attempt' = [attempt EXCEPT ![c] = att]
  /\ sinceLast' = 0
  /\ pc' = [pc EXCEPT ![c] = "fetching"]

\* fetchFromGoogleSheetsWithRetry from its entry to its first await: either
\* the sleep of the interval control, or the first attempt's request.
BeginCycle(c) ==
  LET timeSinceLastCall == sinceLast IN
  /\ elapsed' = [elapsed EXCEPT ![c] = timeSinceLastCall]
  /\ delay' = [delay EXCEPT ![c] = 0]
  /\ IF timeSinceLastCall < MIN_API_INTERVAL
     THEN /\ pc' = [pc EXCEPT ![c] = "throttleWait"]
          /\ waitTime' = [waitTime EXCEPT ![c] = WaitTime(timeSinceLastCall)]
          /\ timer' = [timer EXCEPT ![c] = WaitTime(timeSinceLastCall)]
          /\ attempt' = [attempt EXCEPT ![c] = 0]
          /\ sinceLast' = sinceLast
     ELSE /\ StartAttempt(c, 1)
          /\ waitTime' = [waitTime EXCEPT ![c] = 0]
          /\ timer' = [timer EXCEPT ![c] = 0]

\* A getCustomers that hands the end of the cycle on and stores nothing.
GetCustomersEndUnstored(cyc) ==
  [raised |-> cyc.raised, val |-> cyc.val, fetched |-> cyc.fetched,
   store |-> FALSE]

\* What getCustomers does with the end of the retry cycle `cyc`
\* ([raised, val, fetched]): in the production branch a returned set is
\* stored and an error is replaced by the stored set; otherwise the cycle's
\* end is the call's end.
GetCustomersEnd(cyc) ==
  IF UseFallback
  THEN IF cyc.raised
       THEN [raised |-> FALSE, val |-> GetLocalCustomers, fetched |-> FALSE,
             store |-> FALSE]
       ELSE [raised |-> FALSE, val |-> cyc.val, fetched |-> cyc.fetched,
             store |-> TRUE]
  ELSE [raised |-> cyc.raised, val |-> cyc.val, fetched |-> cyc.fetched,
        store |-> FALSE]

\* The end of a retry cycle, run through getCustomers and, for a call of
\* updateCustomer, through updateCustomerInSheets up to its PUT request; for
\* a call of getCustomerById, through the lookup in the returned set.
EndCycle(c, cyc) ==
  LET g == GetCustomersEnd(cyc)
      customerIndex == FindIndex(g.val, arg[c].id)
      how == [fetched |-> g.fetched,
              cycle |-> IF cyc.raised THEN "raised" ELSE "returned",
              error |-> IF cyc.raised THEN cyc.val ELSE <<>>]
      Settled(kind, val) ==
        [kind |-> kind, val |-> val, fetched |-> how.fetched,
         cycle |-> how.cycle, error |-> how.error]
  IN
  /\ cache' = IF g.store THEN g.val ELSE cache
  /\ IF op[c] = "updateCustomer" /\ ~g.raised /\ customerIndex # -1
     THEN /\ pc' = [pc EXCEPT ![c] = "putting"]
          /\ rowNumber' = [rowNumber EXCEPT ![c] = customerIndex + 2]
          /\ result' = [result EXCEPT ![c] = Settled("none", <<>>)]
     ELSE /\ pc' = [pc EXCEPT ![c] = "done"]
          /\ rowNumber' = rowNumber
          /\ result' = [result EXCEPT ![c] =
               CASE op[c] = "updateCustomer" ->
                      Settled("raised", IF g.raised THEN g.val ELSE NotFoundError)
                 [] op[c] = "getCustomerById" /\ ~g.raised ->
                      Settled("returned", Find(g.val, arg[c].id))
                 [] OTHER ->
                      Settled(IF g.raised THEN "raised" ELSE "returned", g.val)]

\* A caller calls getCustomers().
GetCustomers(c) ==
  /\ pc[c] = "idle"
  /\ op' = [op EXCEPT ![c] = "getCustomers"]
  /\ BeginCycle(c)
  /\ UNCHANGED <<conf, apiVars, cache, sheet, result, arg, rowNumber>>

\* The timer of the interval control fires: the first attempt starts.
ThrottleWake(c) ==
  /\ pc[c] = "throttleWait"
  /\ timer[c] = 0
  /\ StartAttempt(c, 1)
  /\ UNCHANGED <<conf, apiVars, cache, sheet, op, timer, waitTime, elapsed, delay,
                 result, arg, rowNumber>>

\* The catch block without the stored-array fallback of the last attempt.
CatchDecisionNoLocal(att, message) ==
  IF IsRateLimit(message) THEN "retry" ELSE "throw"

\* The catch block with the test of the last attempt put first.
CatchDecisionLastFirst(att, message) ==
  IF att = MAX_RETRIES THEN "local"
  ELSE IF IsRateLimit(message) THEN "retry"
  ELSE "throw"

\* The catch block of the retry loop for the error of attempt `att`: sleep
\* and `continue`, return the stored array, or rethrow.
CatchDecision(att, message) ==
  IF IsRateLimit(message) THEN "retry"
  ELSE IF att = MAX_RETRIES THEN "local"
  ELSE "throw"

\* The endpoint answers the attempt in flight (the try/catch of the loop).
AttemptReply(c, reply) ==
  /\ pc[c] = "fetching"
  /\ reply.kind = "ok" => Served
  /\ waitTime' = [waitTime EXCEPT ![c] = 0]
  /\ LET r == FetchFromGoogleSheets(reply, sheet)
         todo == IF r.ok THEN "return" ELSE CatchDecision(attempt[c], r.error)
     IN
     CASE todo = "return" ->
            /\ EndCycle(c, [raised |-> FALSE, val |-> r.data, fetched |-> TRUE])
            /\ UNCHANGED <<timer, delay, elapsed>>
       [] todo = "retry" ->
            /\ delay' = [delay EXCEPT ![c] = BackoffDelay(attempt[c])]
            /\ timer' = [timer EXCEPT ![c] = BackoffDelay(attempt[c])]
            /\ elapsed' = [elapsed EXCEPT ![c] = 0]
            /\ pc' = [pc EXCEPT ![c] = "backoffWait"]
            /\ UNCHANGED <<cache, result, rowNumber>>
       [] todo = "local" ->
            /\ EndCycle(c, [raised |-> FALSE, val |-> GetLocalCustomers,
                            fetched |-> FALSE])
            /\ UNCHANGED <<timer, delay, elapsed>>
       [] OTHER ->
            /\ EndCycle(c, [raised |-> TRUE, val |-> r.error, fetched |-> FALSE])
            /\ UNCHANGED <<timer, delay, elapsed>>
  /\ UNCHANGED <<conf, apiVars, sinceLast, sheet, op, attempt, arg>>

\* The backoff timer fires: `continue`, that is the next attempt, or the
\* end of the loop and the throw after it.
BackoffWake(c) ==
  /\ pc[c] = "backoffWait"
  /\ timer[c] = 0
  /\ IF attempt[c] + 1 <= MAX_RETRIES
     THEN /\ StartAttempt(c, attempt[c] + 1)
          /\ UNCHANGED <<cache, result, rowNumber>>
     ELSE /\ EndCycle(c, [raised |-> TRUE, val |-> MaxRetriesError,
                          fetched |-> FALSE])
          /\ UNCHANGED <<attempt, sinceLast>>
  /\ UNCHANGED <<conf, apiVars, sheet, op, timer, waitTime, elapsed, delay, arg>>

(* ---------------------------- updateCustomer ---------------------------- *)

\* customers[customerIndex] = updatedCustomer
ReplaceAt(customers, customerIndex, r) ==
  [customers EXCEPT ![customerIndex + 1] = r]

\* A caller calls updateCustomer(r): the stored array is updated, and in
\* production updateCustomerInSheets starts by calling getCustomers.
UpdateCustomer(c, r) ==
  /\ pc[c] = "idle"
  /\ op' = [op EXCEPT ![c] = "updateCustomer"]
  /\ arg' = [arg EXCEPT ![c] = r]
  /\ LET customers == GetLocalCustomers
         customerIndex == FindIndex(customers, r.id)
     IN
     IF customerIndex = -1
     THEN /\ pc' = [pc EXCEPT ![c] = "done"]
          /\ result' = [result EXCEPT ![c] =
               [NoResult EXCEPT !.kind = "raised", !.val = NotFoundError]]
          /\ UNCHANGED <<cache, sinceLast, attempt, timer, waitTime, elapsed,
                         delay>>
     ELSE /\ cache' = ReplaceAt(customers, customerIndex, r)
          /\ IF env = "production"
             THEN /\ BeginCycle(c)
                  /\ result' = result
             ELSE /\ pc' = [pc EXCEPT ![c] = "done"]
                  /\ result' = [result EXCEPT ![c] =
                       [NoResult EXCEPT !.kind = "returned"]]
                  /\ UNCHANGED <<sinceLast, attempt, timer, waitTime, elapsed,
                                 delay>>
  /\ UNCHANGED <<conf, apiVars, sheet, rowNumber>>

\* The row updateCustomerInSheets sends: the record's cells in column order.
RowData(customer) == [name |-> customer.name, petName |-> customer.petName]

\* The grid after a write of `row` to the range A<n>:M<n>; rows between the
\* end of the grid and row n are blank.
WriteRow(values, n, row) ==
  [i \in 1..Max(Len(values), n) |->
     IF i = n THEN row ELSE IF i <= Len(values) THEN values[i] ELSE BlankRow]

PutError == <<"Google Sheets API error">>

\* The endpoint answers the PUT of updateCustomerInSheets.
PutReply(c, ok) ==
  /\ pc[c] = "putting"
  /\ ok => Served
  /\ sheet' = IF ok THEN WriteRow(sheet, rowNumber[c], RowData(arg[c])) ELSE sheet
  /\ pc' = [pc EXCEPT ![c] = "done"]
  /\ result' = [result EXCEPT ![c] =
       IF ok THEN [result[c] EXCEPT !.kind = "returned"]
       ELSE [result[c] EXCEPT !.kind = "raised", !.val = PutError]]
  /\ UNCHANGED <<conf, apiVars, sinceLast, cache, op, attempt, timer, waitTime, elapsed,
                 delay, arg, rowNumber>>

(* ----------------------- deleteCustomerCompletely ----------------------- *)

\* The filter with its test inverted: the records of that id are kept.
DeleteCustomerInverted(customers, id) ==
  SelectSeq(customers, LAMBDA cu : cu.id = id)

\* deleteCustomer(id): the stored array without the records of that id.
DeleteCustomer(customers, id) == SelectSeq(customers, LAMBDA cu : cu.id # id)

\* A caller calls deleteCustomerCompletely(id).
DeleteCustomerCompletely(c, id) ==
  /\ pc[c] = "idle"
  /\ op' = [op EXCEPT ![c] = "deleteCustomerCompletely"]
  /\ arg' = [arg EXCEPT ![c] = [NoArg EXCEPT !.id = id]]
  /\ cache' = DeleteCustomer(GetLocalCustomers, id)
  /\ pc' = [pc EXCEPT ![c] = "done"]
  /\ result' = [result EXCEPT ![c] = [NoResult EXCEPT !.kind = "returned"]]
  /\ UNCHANGED <<conf, apiVars, sinceLast, sheet, attempt, timer, waitTime, elapsed,
                 delay, rowNumber>>

(* ---------------------------- getCustomerById --------------------------- *)

\* A caller calls getCustomerById(id): getCustomers, then the lookup.
GetCustomerById(c, id) ==
  /\ pc[c] = "idle"
  /\ op' = [op EXCEPT ![c] = "getCustomerById"]
  /\ arg' = [arg EXCEPT ![c] = [NoArg EXCEPT !.id = id]]
  /\ BeginCycle(c)
  /\ UNCHANGED <<conf, apiVars, cache, sheet, result, rowNumber>>

(* ------------------------------ scheduling ------------------------------ *)

\* The caller takes the settled promise: its call is over.
Return(c) ==
  /\ pc[c] = "done"
  /\ pc' = [pc EXCEPT ![c] = "idle"]
  /\ op' = [op EXCEPT ![c] = "none"]
  /\ attempt' = [attempt EXCEPT ![c] = 0]
  /\ timer' = [timer EXCEPT ![c] = 0]
  /\ waitTime' = [waitTime EXCEPT ![c] = 0]
  /\ elapsed' = [elapsed EXCEPT ![c] = 0]
  /\ delay' = [delay EXCEPT ![c] = 0]
  /\ result' = [result EXCEPT ![c] = NoResult]
  /\ arg' = [arg EXCEPT ![c] = NoArg]
  /\ rowNumber' = [rowNumber EXCEPT ![c] = 0]
  /\ UNCHANGED <<conf, apiVars, sinceLast, cache, sheet>>

\* Tick milliseconds pass: the timers run down, and the last call ages.
Advance ==
  /\ \/ sinceLast < MIN_API_INTERVAL
     \/ \E c \in Callers : timer[c] > 0
  /\ sinceLast' = Min(sinceLast + Tick, MIN_API_INTERVAL)
  /\ timer' = [c \in Callers |-> Max(timer[c] - Tick, 0)]
  /\ elapsed' = [c \in Callers |->
       CASE pc[c] = "throttleWait" -> Min(elapsed[c] + Tick, MIN_API_INTERVAL)
         [] pc[c] = "backoffWait" -> Min(elapsed[c] + Tick, delay[c])
         [] OTHER -> elapsed[c]]
  /\ UNCHANGED <<conf, apiVars, cache, sheet, pc, op, attempt, waitTime, delay, result,
                 arg, rowNumber>>

Next ==
  \/ \E c \in Callers : GetCustomers(c)
  \/ \E c \in Callers : ThrottleWake(c)
  \/ \E c \in Callers, reply \in Replies : AttemptReply(c, reply)
  \/ \E c \in Callers : BackoffWake(c)
  \/ \E c \in Callers, r \in UpdateArgs : UpdateCustomer(c, r)
  \/ \E c \in Callers, ok \in BOOLEAN : PutReply(c, ok)
  \/ \E c \in Callers, id \in CallIds : DeleteCustomerCompletely(c, id)
  \/ \E c \in Callers : Return(c)
  \/ Advance

Spec == Init /\ [][Next]_vars

(* ---------------- one caller, grids of several data rows ---------------- *)

\* Grids with a header row and up to MaxGridRows data rows.
RowsGrids ==
  {<<>>} \cup UNION {{<<HeaderRow>> \o d : d \in [1..n -> Rows]} : n \in 0..MaxGridRows}

\* Identifiers the caller may name: those of the rows.
RowsIds == {CustomerId(i) : i \in 0..(MaxGridRows - 1)}

\* Records the caller may pass to updateCustomer.
RowsArgs == {[id |-> i, name |-> "B", petName |-> "P"] : i \in RowsIds}

\* The caller of the single-caller runs.
Caller == 1

\* A service whose cache and sheet come from grids of several rows.
InitRows ==
  /\ env \in {"production", "development"}
  /\ spreadsheetId \in {"", "sheet-id"}
  /\ apiKey \in {"", "api-key"}
  /\ Truthy(spreadsheetId) \/ Truthy(apiKey)
  /\ sinceLast = MIN_API_INTERVAL
  /\ cache \in {ParseSheetData(g) : g \in RowsGrids}
  /\ sheet \in RowsGrids
  /\ pc = [c \in Callers |-> "idle"]
  /\ op = [c \in Callers |-> "none"]
  /\ attempt = [c \in Callers |-> 0]
  /\ timer = [c \in Callers |-> 0]
  /\ waitTime = [c \in Callers |-> 0]
  /\ elapsed = [c \in Callers |-> 0]
  /\ delay = [c \in Callers |-> 0]
  /\ result = [c \in Callers |-> NoResult]
  /\ arg = [c \in Callers |-> NoArg]
  /\ rowNumber = [c \in Callers |-> 0]
  /\ ApiQuiet

NextRows ==
  \/ GetCustomers(Caller)
  \/ \E id \in RowsIds : GetCustomerById(Caller, id)
  \/ ThrottleWake(Caller)
  \/ \E reply \in Replies : AttemptReply(Caller, reply)
  \/ BackoffWake(Caller)
  \/ \E r \in RowsArgs : UpdateCustomer(Caller, r)
  \/ \E ok \in BOOLEAN : PutReply(Caller, ok)
  \/ \E id \in RowsIds : DeleteCustomerCompletely(Caller, id)
  \/ Return(Caller)
  \/ Advance

SpecRows == InitRows /\ [][NextRows]_vars

(* --------------------------- parseSheetData alone ----------------------- *)

\* Cell texts of the owner-name column: empty, blank, and a name.
ParseNames == {"", " ", "A"}

\* Cell texts of the pet-name column: empty, blank, and a name.
ParsePetNames == {"", " ", "P"}

ParseRows == [name : ParseNames, petName : ParsePetNames]

\* Raw grids: no value at all, or a header row and up to MaxParseRows rows.
ParseGrids ==
  {<<>>} \cup
  UNION {{<<HeaderRow>> \o d : d \in [1..n -> ParseRows]} : n \in 0..MaxParseRows}

InitParse ==
  /\ env = "production"
  /\ spreadsheetId = "sheet-id"
  /\ apiKey = "api-key"
  /\ sinceLast = MIN_API_INTERVAL
  /\ cache = <<>>
  /\ sheet \in ParseGrids
  /\ pc = [c \in Callers |-> "idle"]
  /\ op = [c \in Callers |-> "none"]
  /\ attempt = [c \in Callers |-> 0]
  /\ timer = [c \in Callers |-> 0]
  /\ waitTime = [c \in Callers |-> 0]
  /\ elapsed = [c \in Callers |-> 0]
  /\ delay = [c \in Callers |-> 0]
  /\ result = [c \in Callers |-> NoResult]
  /\ arg = [c \in Callers |-> NoArg]
  /\ rowNumber = [c \in Callers |-> 0]
  /\ ApiQuiet

\* parseSheetData(values) applied to the grid.
Parse(c) ==
  /\ pc[c] = "idle"
  /\ op' = [op EXCEPT ![c] = "parseSheetData"]
  /\ pc' = [pc EXCEPT ![c] = "done"]
  /\ result' = [result EXCEPT ![c] =
       [NoResult EXCEPT !.kind = "returned", !.val = ParseSheetData(sheet)]]
  /\ UNCHANGED <<conf, apiVars, sinceLast, cache, sheet, attempt, timer, waitTime,
                 elapsed, delay, arg, rowNumber>>

NextParse == Parse(Caller)

SpecParse == InitParse /\ [][NextParse]_vars

(* ------------------------- the backend: server.js ----------------------- *)

\* The bearer token of a request: no Authorization header, a token that is
\* not the configured secret, the configured secret.
Tokens == {"none", "wrong", "valid"}

\* Identifiers of the customers of the backend.
ApiIds == {CustomerId(i) : i \in 0..(MaxCustomers - 1)}

\* const requiredFields = ['name', 'email', 'phone', 'petName']
RequiredFields == {"name", "email", "phone", "petName"}

\* A record of the backend, by its identifier and the four required fields;
\* the fields POST fills with defaults are left out.
StoredCustomer(id, name) ==
  [id |-> id, name |-> name, email |-> "E", phone |-> "T", petName |-> "P"]

\* A body with all four required fields.
FullBody == [name |-> "A", email |-> "E", phone |-> "T", petName |-> "P"]

\* Bodies of a POST: the full one, and for each required field the body
\* that lacks it and the body that has it empty.
CreateBodies ==
  {FullBody}
    \cup {[f \in RequiredFields \ {g} |-> FullBody[f]] : g \in RequiredFields}
    \cup {[FullBody EXCEPT ![g] = ""] : g \in RequiredFields}

\* Two of them: the full body and the one with an empty name.
FewCreateBodies == {FullBody, [FullBody EXCEPT !.name = ""]}

\* Bodies of a PUT: a partial record, or a whole one naming another id.
UpdateBodies ==
  {[name |-> "B"]} \cup {StoredCustomer(i, "B") : i \in ApiIds}

\* Bodies of a PUT that empty a field.
EmptyingBodies == {[name |-> ""], [email |-> ""]}

\* The stored arrays the backend can have been left with: records numbered
\* in creation order, some of them deleted since.  The file is taken to be
\* readable: loadCustomers gives the array that was last saved.
InitStores ==
  {<<>>} \cup
  {<<StoredCustomer(i, "A")>> : i \in ApiIds} \cup
  {<<StoredCustomer(CustomerId(0), "A"), StoredCustomer(CustomerId(1), "A")>>}

RECURSIVE ParseInt(_)
\* parseInt of a string of decimal digits.
ParseInt(digits) ==
  IF Len(digits) = 0 THEN 0
  ELSE 10 * ParseInt(SubSeq(digits, 1, Len(digits) - 1)) + digits[Len(digits)]

RECURSIVE MaxIdNumber(_)
\* customers.reduce((max, c) => Math.max(max, parseInt(c.id.replace('C', ''))), 0)
MaxIdNumber(customers) ==
  IF Len(customers) = 0 THEN 0
  ELSE Max(MaxIdNumber(SubSeq(customers, 1, Len(customers) - 1)),
           ParseInt(Tail(customers[Len(customers)].id)))

\* An identifier numbered by the count of the records.
GenerateCustomerIdByCount(customers) ==
  <<"C">> \o PadStart(ToDigits(Len(customers) + 1), 3, 0)

\* generateCustomerId(): one more than the largest number in use.
GenerateCustomerId(customers) ==
  <<"C">> \o PadStart(ToDigits(MaxIdNumber(customers) + 1), 3, 0)

\* authenticateApiKey: the request passes iff its token is the secret.
AuthenticateApiKey(token) == ~(token = "none" \/ token # "valid")

Unauthorized == Resp("401", <<"Unauthorized">>, <<>>, FALSE, <<>>)

CustomerNotFound == Resp("404", <<"customer not found">>, <<>>, FALSE, <<>>)

SaveFailed == Resp("500", <<"saving the data failed">>, <<>>, FALSE, <<>>)

Acknowledged(id) == Resp("200", <<>>, <<>>, TRUE, id)

\* A handler's result: its response and the stored array it leaves.
Handled(resp, customers) == [resp |-> resp, store |-> customers]

\* GET /api/customers
ListCustomers(token) == Handled(Resp("200", <<>>, store, FALSE, <<>>), store)

\* GET /api/customers/:id
GetCustomer(token, id) ==
  IF FindIndex(store, id) = -1 THEN Handled(CustomerNotFound, store)
  ELSE Handled(Resp("200", <<>>, <<Find(store, id)>>, FALSE, <<>>), store)

\* A POST that refuses a missing required field and admits an empty one.
CreateCustomerAdmitsEmpty(token, body, saved) ==
  IF ~AuthenticateApiKey(token) THEN Handled(Unauthorized, store)
  ELSE IF \E field \in RequiredFields : field \notin DOMAIN body
  THEN Handled(Resp("400", <<"a required field is missing">>, <<>>, FALSE, <<>>),
               store)
  ELSE IF saved
  THEN Handled(Acknowledged(GenerateCustomerId(store)),
               Append(store, [id |-> GenerateCustomerId(store),
                              name |-> body.name, email |-> body.email,
                              phone |-> body.phone, petName |-> body.petName]))
  ELSE Handled(SaveFailed, store)

\* POST /api/customers; saved: writeFileSync succeeded.
CreateCustomer(token, body, saved) ==
  IF ~AuthenticateApiKey(token) THEN Handled(Unauthorized, store)
  ELSE IF \E field \in RequiredFields :
            field \notin DOMAIN body \/ ~Truthy(body[field])
  THEN Handled(Resp("400", <<"a required field is missing">>, <<>>, FALSE, <<>>),
               store)
  ELSE LET customerData == [id |-> GenerateCustomerId(store),
                            name |-> body.name, email |-> body.email,
                            phone |-> body.phone, petName |-> body.petName]
       IN IF saved
          THEN Handled(Acknowledged(customerData.id), Append(store, customerData))
          ELSE Handled(SaveFailed, store)

\* A merge in which the id of the body, when it has one, is the last word.
MergedBodyLast(existing, body, id) ==
  [f \in DOMAIN existing \cup DOMAIN body \cup {"id"} |->
     IF f \in DOMAIN body THEN body[f]
     ELSE IF f = "id" THEN id
     ELSE existing[f]]

\* { ...customers[customerIndex], ...req.body, id: req.params.id }
Merged(existing, body, id) ==
  [f \in DOMAIN existing \cup DOMAIN body \cup {"id"} |->
     IF f = "id" THEN id
     ELSE IF f \in DOMAIN body THEN body[f]
     ELSE existing[f]]

\* PUT /api/customers/:id
PutCustomer(token, id, body, saved) ==
  LET customerIndex == FindIndex(store, id) IN
  IF ~AuthenticateApiKey(token) THEN Handled(Unauthorized, store)
  ELSE IF customerIndex = -1 THEN Handled(CustomerNotFound, store)
  ELSE IF saved
  THEN Handled(Acknowledged(<<>>),
               ReplaceAt(store, customerIndex,
                         Merged(store[customerIndex + 1], body, id)))
  ELSE Handled(SaveFailed, store)

\* customers.splice(customerIndex, 1)
Splice(customers, customerIndex) ==
  SubSeq(customers, 1, customerIndex)
    \o SubSeq(customers, customerIndex + 2, Len(customers))

\* DELETE /api/customers/:id
RemoveCustomer(token, id, saved) ==
  LET customerIndex == FindIndex(store, id) IN
  IF ~AuthenticateApiKey(token) THEN Handled(Unauthorized, store)
  ELSE IF customerIndex = -1 THEN Handled(CustomerNotFound, store)
  ELSE IF saved THEN Handled(Acknowledged(<<>>), Splice(store, customerIndex))
  ELSE Handled(SaveFailed, store)


\* A REST client other than the browser sends a request and is answered.
Rest(name, id, token, body, h) ==
  /\ store' = h.store
  /\ last' = [who |-> "rest", op |-> name, id |-> id, given |-> <<>>, sent |-> 1,
              token |-> token, body |-> body, resp |-> h.resp,
              outcome |-> NoOutcome]
  /\ UNCHANGED <<sheetsVars, apiUrl, photos, uploads, view>>

RestList(token) == Rest("list", <<>>, token, NoBody, ListCustomers(token))

RestGet(token, id) == Rest("get", id, token, NoBody, GetCustomer(token, id))

\* The numbers handed out stop at MaxCustomers.
RestCreate(token, body, saved) ==
  LET h == CreateCustomer(token, body, saved) IN
  /\ h.store # store => ParseInt(Tail(h.resp.id)) <= MaxCustomers
  /\ Rest("create", <<>>, token, body, h)

RestUpdate(token, id, body, saved) ==
  Rest("update", id, token, body, PutCustomer(token, id, body, saved))

RestDelete(token, id, saved) ==
  Rest("delete", id, token, NoBody, RemoveCustomer(token, id, saved))

(* ------------------- the browser: ApiService and the views -------------- *)

\* The token of a request of ApiService: its headers are Content-Type and
\* what the caller passes, and no caller passes an Authorization header.
ApiToken == "none"

\* response.ok
ResponseOk(resp) == resp.status = "200"

\* What a backend other than server.js answers when it refuses or fails.
OtherFailures ==
  {Resp(st, e, <<>>, FALSE, <<>>) :
     st \in {"401", "404", "500"}, e \in {<<>>, <<"Unauthorized">>}}

\* The exchanges a request of the browser can have: with server.js the
\* handler's result h; with another backend a failure or a success whose
\* body carries one of okData, the array of server.js left alone.
Exchange(h, okData) ==
  IF apiUrl = "server" THEN {h}
  ELSE {Handled(r, store) :
          r \in OtherFailures \cup {Resp("200", <<>>, d, TRUE, <<>>) : d \in okData}}

\* request<T>(endpoint, options) on the response.
Request(resp) ==
  IF ~ResponseOk(resp)
  THEN Outcome("raised",
               IF resp.error # <<>> THEN resp.error
               ELSE <<"HTTP error! status: ", resp.status>>,
               <<>>, FALSE, FALSE)
  ELSE Outcome("returned", <<>>, resp.data, FALSE, FALSE)

\* error.message.includes('404')
Includes404(message) == \E i \in 1..Len(message) : message[i] = "404"

\* ApiService.getCustomerById on the response.
ApiGetCustomerById(resp) ==
  LET o == Request(resp) IN
  IF o.kind = "raised" /\ Includes404(o.message)
  THEN Outcome("returned", <<>>, <<>>, TRUE, FALSE)
  ELSE o

\* A step of a view: the exchange h, what the call made of it, the new view.
ViewStep(name, id, body, h, o, newView) ==
  /\ store' = h.store
  /\ view' = newView
  /\ last' = [who |-> "view", op |-> name, id |-> id, given |-> <<>>, sent |-> 1,
              token |-> ApiToken, body |-> body, resp |-> h.resp,
              outcome |-> o]
  /\ UNCHANGED <<sheetsVars, apiUrl, photos, uploads>>

\* The records another backend may list.
OtherLists == {<<>>, <<StoredCustomer(CustomerId(0), "A")>>}

\* CustomerList.loadCustomers
LoadCustomers ==
  \E h \in Exchange(ListCustomers(ApiToken), OtherLists) :
    LET o == Request(h.resp) IN
    ViewStep("getCustomers", <<>>, NoBody, h, o,
             IF o.kind = "returned"
             THEN [view EXCEPT !.customers = o.data, !.error = ""]
             ELSE [view EXCEPT !.error = "load failed"])

\* CustomerDetail.loadCustomer(id)
LoadCustomer(id) ==
  \E h \in Exchange(GetCustomer(ApiToken, id),
                    {<<StoredCustomer(id, "A")>>}) :
    LET o == ApiGetCustomerById(h.resp) IN
    ViewStep("getCustomerById", id, NoBody, h, o,
             IF o.kind = "raised" THEN [view EXCEPT !.error = "load failed"]
             ELSE IF o.isNull THEN [view EXCEPT !.error = "not found"]
             ELSE [view EXCEPT !.customer = o.data[1], !.error = ""])

\* The edited records the form of the detail view hands over.
ViewEdits == {StoredCustomer(i, "B") : i \in ApiIds}

\* CustomerDetail.handleUpdateCustomer(updatedCustomer), for the customer shown.
HandleUpdateCustomer(r, saved) ==
  /\ view.customer # Null
  /\ r.id = view.customer.id
  /\ \E h \in Exchange(PutCustomer(ApiToken, r.id, r, saved), {<<>>}) :
       LET o == Request(h.resp) IN
       ViewStep("updateCustomer", r.id, r, h, o,
                IF o.kind = "returned" THEN [view EXCEPT !.customer = r]
                ELSE [view EXCEPT !.error = "update failed"])

\* CustomerList.handleDeleteConfirm, customerToDelete being the listed
\* customer of that id.
HandleDeleteConfirm(id, saved) ==
  /\ \E i \in 1..Len(view.customers) : view.customers[i].id = id
  /\ \E h \in Exchange(RemoveCustomer(ApiToken, id, saved), {<<>>}) :
       LET o == Request(h.resp) IN
       ViewStep("deleteCustomer", id, NoBody, h, o,
                IF o.kind = "returned"
                THEN [view EXCEPT !.customers =
                        SelectSeq(view.customers, LAMBDA cu : cu.id # id)]
                ELSE [view EXCEPT !.error = "delete failed"])

(* ------------------------------ PhotoService ---------------------------- *)

PhotoIds == 1..MaxPhotos

\* Sizes of the files offered: within the limit, and one byte over it.
FileSizes == {MAX_FILE_SIZE, MAX_FILE_SIZE + 1}

\* Descriptions: none given ("" for undefined), and a text.
Descriptions == {"", "text"}

\* getAllPhotos()
GetAllPhotos == photos

\* getPhotosByCustomerId(customerId)
GetPhotosByCustomerId(customerId) ==
  SelectSeq(GetAllPhotos, LAMBDA ph : ph.customerId = customerId)

\* A sequence without its k-th member.
Without(seq, k) == SubSeq(seq, 1, k - 1) \o SubSeq(seq, k + 1, Len(seq))

\* A step of PhotoService: the stored array, the pending uploads, the result.
PhotoStep(name, id, newPhotos, newUploads, success) ==
  /\ photos' = newPhotos
  /\ uploads' = newUploads
  /\ last' = [who |-> "photo", op |-> name, id |-> id, given |-> <<>>, sent |-> 0,
              token |-> "none", body |-> NoBody, resp |-> NoResp,
              outcome |-> Outcome("returned", <<>>, <<>>, FALSE, success)]
  /\ UNCHANGED <<sheetsVars, apiUrl, store, view>>

\* uploadPhoto(customerId, file, description) up to its await of
\* fileToDataUrl: the two checks, each ending the call with
\* { success: false }.
UploadPhoto(customerId, fileSize, description) ==
  IF fileSize > MAX_FILE_SIZE
       \/ Len(GetPhotosByCustomerId(customerId)) >= MAX_PHOTOS_PER_CUSTOMER
  THEN PhotoStep("uploadPhoto", customerId, photos, uploads, FALSE)
  ELSE /\ Len(uploads) < MaxUploads
       /\ uploads' = Append(uploads, [customerId |-> customerId,
                                      fileSize |-> fileSize,
                                      description |-> description])
       /\ UNCHANGED <<sheetsVars, apiUrl, store, view, photos, last>>

\* The k-th pending uploadPhoto after fileToDataUrl: the file was read and
\* the photo, under a fresh identifier, is pushed to the stored array as it
\* is now; or the read failed.
FinishUpload(k, read, photoId) ==
  /\ k \in 1..Len(uploads)
  /\ \A i \in 1..Len(photos) : photos[i].id # photoId
  /\ PhotoStep("uploadPhoto", uploads[k].customerId,
               IF read
               THEN Append(GetAllPhotos,
                           [id |-> photoId, customerId |-> uploads[k].customerId,
                            fileSize |-> uploads[k].fileSize,
                            description |-> uploads[k].description])
               ELSE photos,
               Without(uploads, k), read)

\* deletePhoto(photoId)
DeletePhoto(photoId) ==
  LET filteredPhotos == SelectSeq(GetAllPhotos, LAMBDA ph : ph.id # photoId) IN
  PhotoStep("deletePhoto", <<>>,
            filteredPhotos, uploads, Len(filteredPhotos) # Len(GetAllPhotos))

\* deletePhotosByCustomerId(customerId); no view calls it.
DeletePhotosByCustomerId(customerId) ==
  PhotoStep("deletePhotosByCustomerId", customerId,
            SelectSeq(GetAllPhotos, LAMBDA ph : ph.customerId # customerId),
            uploads, TRUE)

\* updatePhotoDescription(photoId, description)
UpdatePhotoDescription(photoId, description) ==
  PhotoStep("updatePhotoDescription", <<>>,
            [i \in 1..Len(photos) |->
               IF photos[i].id = photoId
               THEN [photos[i] EXCEPT !.description = description]
               ELSE photos[i]],
            uploads, \E i \in 1..Len(photos) : photos[i].id = photoId)

(* --------------------- backend, views and photos: runs ------------------ *)

\* GoogleSheetsService unused while the backend and the views are followed.
SheetsQuiet ==
  /\ env = "production"
  /\ spreadsheetId = "sheet-id"
  /\ apiKey = "api-key"
  /\ sinceLast = MIN_API_INTERVAL
  /\ cache = <<>>
  /\ sheet = <<>>
  /\ pc = [c \in Callers |-> "idle"]
  /\ op = [c \in Callers |-> "none"]
  /\ attempt = [c \in Callers |-> 0]
  /\ timer = [c \in Callers |-> 0]
  /\ waitTime = [c \in Callers |-> 0]
  /\ elapsed = [c \in Callers |-> 0]
  /\ delay = [c \in Callers |-> 0]
  /\ result = [c \in Callers |-> NoResult]
  /\ arg = [c \in Callers |-> NoArg]
  /\ rowNumber = [c \in Callers |-> 0]

InitApi ==
  /\ SheetsQuiet
  /\ apiUrl \in {"server", "other"}
  /\ store \in InitStores
  /\ photos = <<>>
  /\ uploads = <<>>
  /\ view = NoView
  /\ last = NoLast

NextApi ==
  \/ \E token \in Tokens : RestList(token)
  \/ \E token \in Tokens, id \in ApiIds : RestGet(token, id)
  \/ \E token \in Tokens, body \in FewCreateBodies, saved \in BOOLEAN :
       RestCreate(token, body, saved)
  \/ \E token \in Tokens, id \in ApiIds, body \in UpdateBodies, saved \in BOOLEAN :
       RestUpdate(token, id, body, saved)
  \/ \E token \in Tokens, id \in ApiIds, saved \in BOOLEAN :
       RestDelete(token, id, saved)
  \/ LoadCustomers
  \/ \E id \in ApiIds : LoadCustomer(id)
  \/ \E r \in ViewEdits, saved \in BOOLEAN : HandleUpdateCustomer(r, saved)
  \/ \E id \in ApiIds, saved \in BOOLEAN : HandleDeleteConfirm(id, saved)

\* The backend, its REST clients and the views; no photo is stored.
SpecApi == InitApi /\ [][NextApi]_vars

\* The backend from the empty store: no data file yet, loadCustomers
\* gives [].
InitBackend ==
  /\ SheetsQuiet
  /\ apiUrl = "server"
  /\ store = <<>>
  /\ photos = <<>>
  /\ uploads = <<>>
  /\ view = NoView
  /\ last = NoLast

NextBackend ==
  \/ \E token \in Tokens : RestList(token)
  \/ \E token \in Tokens, id \in ApiIds : RestGet(token, id)
  \/ \E token \in Tokens, body \in CreateBodies, saved \in BOOLEAN :
       RestCreate(token, body, saved)
  \/ \E token \in Tokens, id \in ApiIds, saved \in BOOLEAN,
        body \in UpdateBodies \cup EmptyingBodies :
       RestUpdate(token, id, body, saved)
  \/ \E token \in Tokens, id \in ApiIds, saved \in BOOLEAN :
       RestDelete(token, id, saved)

\* The backend and its REST clients alone.
SpecBackend == InitBackend /\ [][NextBackend]_vars

NextPhotos ==
  \/ LoadCustomers
  \/ \E id \in ApiIds, saved \in BOOLEAN : HandleDeleteConfirm(id, saved)
  \/ \E customerId \in ApiIds, fileSize \in FileSizes, description \in Descriptions :
       UploadPhoto(customerId, fileSize, description)
  \/ \E k \in 1..MaxUploads, read \in BOOLEAN, photoId \in PhotoIds :
       FinishUpload(k, read, photoId)
  \/ \E photoId \in PhotoIds : DeletePhoto(photoId)
  \/ \E customerId \in ApiIds : DeletePhotosByCustomerId(customerId)
  \/ \E photoId \in PhotoIds, description \in Descriptions :
       UpdatePhotoDescription(photoId, description)

\* PhotoService and the list view, whose customers own the photos.
SpecPhotos == InitApi /\ [][NextPhotos]_vars

(* ------------------- PhotoService near the photo limit ------------------ *)

\* The customer whose photos fill the storage.
CapCustomer == CustomerId(0)

\* A storage holding n photos of that customer, uploaded one after another.
FullStorage(n) ==
  [i \in 1..n |-> [id |-> i, customerId |-> CapCustomer,
                   fileSize |-> MAX_FILE_SIZE, description |-> ""]]

\* The identifiers of the photos that are uploaded, deleted or described:
\* the last ones of the fullest storage and those of the uploads to come.
CapPhotoIds ==
  (MAX_PHOTOS_PER_CUSTOMER - NearCap)..(MAX_PHOTOS_PER_CUSTOMER + MaxUploads)

InitCap ==
  /\ SheetsQuiet
  /\ apiUrl = "server"
  /\ store = <<>>
  /\ photos \in {FullStorage(n) :
                   n \in (MAX_PHOTOS_PER_CUSTOMER - NearCap)..MAX_PHOTOS_PER_CUSTOMER}
  /\ uploads = <<>>
  /\ view = NoView
  /\ last = NoLast

NextCap ==
  \/ \E fileSize \in FileSizes : UploadPhoto(CapCustomer, fileSize, "")
  \/ \E k \in 1..MaxUploads, read \in BOOLEAN, photoId \in CapPhotoIds :
       FinishUpload(k, read, photoId)
  \/ \E photoId \in CapPhotoIds : DeletePhoto(photoId)
  \/ \E photoId \in CapPhotoIds : UpdatePhotoDescription(photoId, "text")

\* PhotoService alone, from storages at and just below the limit.
SpecCap == InitCap /\ [][NextCap]_vars

(* ------------------ the form relay: google-apps-script.js --------------- *)

\* A submitted row, columns 0 to 10: timestamp, name, furigana, email,
\* phone, address, pet name, breed, age, weight, notes.  The age and the
\* weight are strings of digits.
FormRow(name, email, phone, petName, petType, age) ==
  <<"ts", name, "kana", email, phone, "addr", petName, petType, age, <<8>>,
    "memo">>

FormValues ==
  {FormRow(name, email, phone, petName, petType, age) :
     name \in {"", "A"}, email \in {"", "E"}, phone \in {"", "T"},
     petName \in {"", "P"}, petType \in {"", "dog"}, age \in {<<>>, <<3>>}}

\* The events handed to the script: a form submission has values, a web
\* request to doGet has none.
Events == {[values |-> v] : v \in FormValues} \cup {[parameter |-> <<>>]}

\* formData[k], k counted from 0.
Column(formData, k) == formData[k + 1]

\* a || b
OrElse(a, b) == IF Truthy(a) THEN a ELSE b

\* The payload with the columns of email and phone taken for each other.
CustomerDataSwapped(formData) ==
  [name |-> OrElse(Column(formData, 1), ""),
   furigana |-> OrElse(Column(formData, 2), ""),
   email |-> OrElse(Column(formData, 4), ""),
   phone |-> OrElse(Column(formData, 3), ""),
   address |-> OrElse(Column(formData, 5), ""),
   petName |-> OrElse(Column(formData, 6), ""),
   petType |-> OrElse(Column(formData, 7), "other"),
   age |-> ParseInt(Column(formData, 8)),
   weight |-> ParseInt(Column(formData, 9)),
   notes |-> OrElse(Column(formData, 10), "")]

\* const customerData = { name: formData[1] || '', ... }; parseInt and
\* parseFloat of an empty cell are NaN, and NaN || 0 is 0.
CustomerData(formData) ==
  [name |-> OrElse(Column(formData, 1), ""),
   furigana |-> OrElse(Column(formData, 2), ""),
   email |-> OrElse(Column(formData, 3), ""),
   phone |-> OrElse(Column(formData, 4), ""),
   address |-> OrElse(Column(formData, 5), ""),
   petName |-> OrElse(Column(formData, 6), ""),
   petType |-> OrElse(Column(formData, 7), "other"),
   age |-> ParseInt(Column(formData, 8)),
   weight |-> ParseInt(Column(formData, 9)),
   notes |-> OrElse(Column(formData, 10), "")]

\* onSubmit ends without a request: an early return, or the TypeError of
\* reading undefined values, caught and logged.  Nothing is raised.
NothingSent(e, key) ==
  [given |-> [e |-> e, key |-> key], raised |-> FALSE, sent |-> 0,
   token |-> "none", body |-> NoBody, h |-> Handled(NoResp, store)]

\* onSubmit(e) with the API_KEY script property key ("none": not set);
\* reached: the request got to the backend and was answered, otherwise
\* UrlFetchApp.fetch threw; saved: the backend wrote its file.  Whatever the
\* answer, it is logged, and an exception is caught and logged.
OnSubmit(e, key, reached, saved) ==
  IF "values" \notin DOMAIN e THEN NothingSent(e, key)
  ELSE LET customerData == CustomerData(e.values) IN
       IF \/ ~Truthy(customerData.name) \/ ~Truthy(customerData.email)
          \/ ~Truthy(customerData.phone) \/ ~Truthy(customerData.petName)
       THEN NothingSent(e, key)
       ELSE IF key = "none" THEN NothingSent(e, key)
       ELSE [given |-> [e |-> e, key |-> key], raised |-> FALSE,
             sent |-> 1, token |-> key,
             body |-> customerData,
             h |-> IF reached THEN CreateCustomer(key, customerData, saved)
                   ELSE Handled(NoResp, store)]

\* A run of the script: what onSubmit did, and the success flag of the
\* response handed back (FALSE where no response is).
RelayStep(name, r, success) ==
  /\ r.h.store # store => ParseInt(Tail(r.h.resp.id)) <= MaxCustomers
  /\ store' = r.h.store
  /\ last' = [who |-> "relay", op |-> name, id |-> <<>>, given |-> r.given,
              sent |-> r.sent,
              token |-> r.token, body |-> r.body, resp |-> r.h.resp,
              outcome |-> Outcome("returned", <<>>, <<>>, FALSE, success)]
  /\ UNCHANGED <<sheetsVars, apiUrl, photos, uploads, view>>

\* The form-submit trigger runs onSubmit(e).
FormSubmit(e, key, reached, saved) ==
  RelayStep("onSubmit", OnSubmit(e, key, reached, saved), FALSE)

\* doGet(e): { success: true } unless onSubmit(e) raised.
DoGet(e, key, reached, saved) ==
  LET r == OnSubmit(e, key, reached, saved) IN
  RelayStep("doGet", r, ~r.raised)

InitRelay ==
  /\ SheetsQuiet
  /\ apiUrl = "server"
  /\ store \in InitStores
  /\ photos = <<>>
  /\ uploads = <<>>
  /\ view = NoView
  /\ last = NoLast

NextRelay ==
  \/ \E e \in Events, key \in Tokens, reached, saved \in BOOLEAN :
       FormSubmit(e, key, reached, saved)
  \/ \E e \in Events, key \in Tokens, reached, saved \in BOOLEAN :
       DoGet(e, key, reached, saved)
  \/ \E id \in ApiIds : RestDelete("valid", id, TRUE)

\* The relay, the backend it posts to, and deletes that make room.
SpecRelay == InitRelay /\ [][NextRelay]_vars

(* ------------------------------- claims --------------------------------- *)

\* A reply that is a failure of the rate-limit class: status 429, or the
\* RATE_LIMIT_EXCEEDED signal in the error body.
RateLimitReply(reply) ==
  reply.kind # "ok" /\ (reply.status = "429" \/ reply.text = "RATE_LIMIT_EXCEEDED")

\* A reply that is a failure of any other class.
OtherFailureReply(reply) == reply.kind # "ok" /\ ~RateLimitReply(reply)

Waiting == {"throttleWait", "fetching", "backoffWait"}

\* C1: a fetch cycle makes at most 3 attempts; attempt 2 starts only 2000 ms
\* after the rate-limit failure of attempt 1, attempt 3 only 4000 ms after
\* that of attempt 2; a cycle whose third attempt succeeds ends in success,
\* the wait before that attempt having been 4000 ms.
C1_BackoffSchedule ==
  \A c \in Callers :
    /\ attempt[c] <= 3
    /\ (pc[c] = "fetching" /\ attempt[c] = 2) =>
         (delay[c] = 2000 /\ elapsed[c] >= 2000)
    /\ (pc[c] = "fetching" /\ attempt[c] = 3) =>
         (delay[c] = 4000 /\ elapsed[c] >= 4000)
    /\ (pc[c] = "done" /\ op[c] = "getCustomers" /\ attempt[c] = 3
          /\ result[c].fetched) =>
         (result[c].kind = "returned" /\ result[c].cycle = "returned"
            /\ delay[c] = 4000 /\ elapsed[c] >= 4000)

\* A call of getCustomers that succeeded on its third attempt, after the
\* waits of 2000 ms and 4000 ms.
C1_Witness ==
  \E c \in Callers :
    /\ pc[c] = "done" /\ op[c] = "getCustomers" /\ attempt[c] = 3
    /\ result[c].fetched /\ result[c].kind = "returned"
    /\ delay[c] = 4000 /\ elapsed[c] = 4000

\* C2: when the three attempts of a cycle all fail with rate-limit errors,
\* getCustomers returns the cache contents and raises nothing.
C2_Claim ==
  [][\A c \in Callers :
       (BackoffWake(c) /\ attempt[c] = 3 /\ op[c] = "getCustomers") =>
         (pc'[c] = "done" /\ result'[c].kind = "returned"
            /\ result'[c].val = cache)]_vars

\* C3 as stated: whenever an attempt, the 1st, 2nd or 3rd, fails with an
\* error that is not rate limiting, no further attempt is made and that
\* error is what fetchFromGoogleSheetsWithRetry raises.
C3_Original ==
  [][\A c \in Callers, reply \in Replies :
       (AttemptReply(c, reply) /\ OtherFailureReply(reply)) =>
         (/\ attempt'[c] = attempt[c]
          /\ pc'[c] \in {"done", "putting"}
          /\ result'[c].cycle = "raised"
          /\ result'[c].error = ErrorMessage(reply))]_vars

\* C3 amended: when the 1st or the 2nd attempt fails with an error that is
\* not rate limiting, no further attempt is made and that error is what
\* fetchFromGoogleSheetsWithRetry raises; when the 3rd attempt fails so, no
\* further attempt is made and the cycle returns the cache contents instead
\* of raising.
C3_NonRateLimitFailure ==
  [][\A c \in Callers, reply \in Replies :
       (pc[c] = "fetching" /\ OtherFailureReply(reply) /\ AttemptReply(c, reply)) =>
         (/\ attempt'[c] = attempt[c]
          /\ pc'[c] \in {"done", "putting"}
          /\ IF attempt[c] < 3
             THEN /\ result'[c].cycle = "raised"
                  /\ result'[c].error = ErrorMessage(reply)
             ELSE /\ result'[c].cycle = "returned"
                  /\ ~result'[c].fetched
                  /\ op[c] = "getCustomers" =>
                       (result'[c].kind = "returned" /\ result'[c].val = cache))]_vars

\* One call ended by the raised error of its second attempt, another by the
\* cache contents returned after the failure of its third attempt.
C3_Witness ==
  \E c, d \in Callers :
    /\ pc[c] = "done" /\ attempt[c] = 2 /\ result[c].cycle = "raised"
    /\ result[c].error = <<"Unexpected token < in JSON at position 0">>
    /\ pc[d] = "done" /\ attempt[d] = 3 /\ result[d].cycle = "returned"
    /\ ~result[d].fetched /\ delay[d] = 4000

\* C4: when the first attempt of a getCustomers call fails with an error
\* that is not rate limiting, the call makes that one attempt only, waits
\* for no backoff and returns the cache contents.
C4_Claim ==
  [][\A c \in Callers, reply \in Replies :
       (AttemptReply(c, reply) /\ OtherFailureReply(reply) /\ attempt[c] = 1
          /\ op[c] = "getCustomers") =>
         (/\ pc'[c] = "done" /\ attempt'[c] = 1 /\ delay'[c] = 0
          /\ result'[c].kind = "returned"
          /\ result'[c].val = cache)]_vars

\* C5: when the remote fetch of a getCustomers call succeeds, the cache is
\* from then on exactly the fetched record set.
C5_Claim ==
  [][\A c \in Callers, reply \in Replies :
       (AttemptReply(c, reply) /\ reply.kind = "ok" /\ op[c] = "getCustomers") =>
         (/\ result'[c].val = ParseSheetData(sheet)
          /\ cache' = result'[c].val)]_vars

\* C6: the first attempt of a cycle does not start before 1000 ms have passed
\* since the attempt recorded in lastApiCall when the cycle began; a cycle
\* begun sooner than that sleeps for the rest of the interval first.
C6_MinInterval ==
  \A c \in Callers :
    /\ (pc[c] = "fetching" /\ attempt[c] = 1) => elapsed[c] >= 1000
    /\ (pc[c] = "throttleWait" /\ elapsed[c] < 1000) => timer[c] > 0

\* A cycle begun 500 ms after the last attempt, whose first attempt is in
\* flight after its sleep.
C6_Witness ==
  \E c \in Callers :
    /\ pc[c] = "fetching" /\ attempt[c] = 1
    /\ waitTime[c] > 0 /\ waitTime[c] < 1000
    /\ elapsed[c] >= 1000

\* C7: no two remote attempts, of one caller or of several, start less than
\* 1000 ms apart.
C7_Claim ==
  [][\A c \in Callers :
       attempt'[c] = attempt[c] + 1 => sinceLast >= 1000]_vars

\* C8: with an empty spreadsheetId or an empty apiKey, getCustomers sends no
\* request to the remote source and returns the empty sequence.
C8_Claim ==
  (spreadsheetId = "" \/ apiKey = "") =>
    \A c \in Callers :
      op[c] = "getCustomers" =>
        /\ pc[c] \notin Waiting
        /\ attempt[c] = 0
        /\ pc[c] = "done" => (result[c].kind = "returned" /\ result[c].val = <<>>)

\* C9: outside production getCustomers sends no request to the Google
\* Sheets API.
C9_Claim ==
  env # "production" =>
    \A c \in Callers :
      op[c] = "getCustomers" => (pc[c] \notin Waiting /\ attempt[c] = 0)

\* C10: whenever updateCustomer(r) ends without raising, in production or in
\* development, the cached record with the id of r is r.
C10_Claim ==
  [][\A c \in Callers :
       (pc[c] # "done" /\ pc'[c] = "done" /\ op'[c] = "updateCustomer"
          /\ result'[c].kind = "returned") =>
         \E i \in 1..Len(cache') :
           cache'[i].id = arg'[c].id /\ cache'[i] = arg'[c]]_vars

\* The identifier 'C' followed by N zero-padded to 3 digits, for N < 10.
PaddedId(N) == <<"C", 0, 0, N>>

\* String.prototype.trim on the cell texts of the model.
Trimmed(text) == IF text = " " THEN "" ELSE text

\* The positions of the records of `customers` whose id is not `id`.
OtherPositions(customers, id) ==
  {i \in 1..Len(customers) : customers[i].id # id}

\* The k-th smallest member of a set of positions.
KthOf(positions, k) ==
  CHOOSE i \in positions : Cardinality({j \in positions : j <= i}) = k

\* C11: in production, the sheet row updateCustomer is about to overwrite,
\* found from a successful fresh fetch, is the source row from which the
\* record with the id of the argument is parsed, also when earlier rows of
\* the grid are dropped by the row filter.
C11_Claim ==
  \A c \in Callers :
    (pc[c] = "putting" /\ env = "production" /\ result[c].fetched) =>
      /\ rowNumber[c] <= Len(sheet)
      /\ MakeCustomer(sheet[rowNumber[c]], rowNumber[c] - 2).id = arg[c].id

\* C12: deleteCustomerCompletely(id) sends no request to the remote source
\* and ends at once; the cache afterwards is the cache before without the
\* records of that id, the other records unchanged and in the same order.
C12_DeleteLocalOnly ==
  [][\A id \in RowsIds :
       DeleteCustomerCompletely(Caller, id) =>
         LET others == OtherPositions(cache, id) IN
         /\ pc'[Caller] = "done" /\ result'[Caller].kind = "returned"
         /\ attempt' = attempt /\ sinceLast' = sinceLast /\ sheet' = sheet
         /\ Len(cache') = Cardinality(others)
         /\ \A k \in 1..Len(cache') : cache'[k] = cache[KthOf(others, k)]]_vars

\* A call deleteCustomerCompletely(C002) that has ended and left the records
\* C001 and C003 in the cache, in that order, no attempt made.
C12_Witness ==
  /\ pc[Caller] = "done" /\ op[Caller] = "deleteCustomerCompletely"
  /\ arg[Caller].id = PaddedId(2)
  /\ Len(cache) = 2
  /\ cache[1].id = PaddedId(1) /\ cache[2].id = PaddedId(3)
  /\ attempt[Caller] = 0 /\ result[Caller].kind = "returned"

\* C13: updateCustomer(r) for an id that no cached record has raises an
\* error to the caller, leaves the cache as it was and sends no remote
\* request.
C13_UpdateUnknownId ==
  [][\A r \in RowsArgs :
       (UpdateCustomer(Caller, r)
          /\ \A i \in 1..Len(cache) : cache[i].id # r.id) =>
         /\ pc'[Caller] = "done"
         /\ result'[Caller].kind = "raised"
         /\ result'[Caller].val = NotFoundError
         /\ cache' = cache /\ sheet' = sheet
         /\ attempt' = attempt /\ sinceLast' = sinceLast]_vars

\* A call updateCustomer for an id absent from a non-empty cache, ended by
\* the raised error before any fetch cycle began.
C13_Witness ==
  /\ pc[Caller] = "done" /\ op[Caller] = "updateCustomer"
  /\ result[Caller].kind = "raised" /\ result[Caller].val = NotFoundError
  /\ result[Caller].cycle = "none" /\ attempt[Caller] = 0
  /\ Len(cache) > 0
  /\ \A i \in 1..Len(cache) : cache[i].id # arg[Caller].id

\* C14: every record parseSheetData returns is built from some data row N
\* and has the identifier 'C' followed by N padded to 3 digits; every data
\* row with an owner name and a pet name gives such a record; identifiers
\* within the result are pairwise distinct, in row order; when all N data
\* rows have both names the result has exactly N records, C001..C00N.
C14_PositionalIds ==
  (pc[Caller] = "done" /\ op[Caller] = "parseSheetData") =>
    LET parsed == result[Caller].val
        n == IF Len(sheet) < 2 THEN 0 ELSE Len(sheet) - 1
    IN
    /\ \A k \in 1..Len(parsed) :
         \E N \in 1..n :
           /\ parsed[k].id = PaddedId(N)
           /\ parsed[k].name = sheet[N + 1].name
           /\ parsed[k].petName = sheet[N + 1].petName
    /\ \A N \in 1..n :
         (sheet[N + 1].name # "" /\ sheet[N + 1].petName # "") =>
           \E k \in 1..Len(parsed) : parsed[k].id = PaddedId(N)
    /\ \A j, k \in 1..Len(parsed) :
         j < k => parsed[j].id[4] < parsed[k].id[4]
    /\ (\A N \in 1..n : sheet[N + 1].name # "" /\ sheet[N + 1].petName # "") =>
         /\ Len(parsed) = n
         /\ \A N \in 1..n : parsed[N].id = PaddedId(N)

\* A grid of three data rows, the second without an owner name: the parse
\* returns the records C001 and C003.
C14_Witness ==
  /\ pc[Caller] = "done" /\ op[Caller] = "parseSheetData"
  /\ Len(sheet) = 4 /\ sheet[3].name = ""
  /\ Len(result[Caller].val) = 2
  /\ result[Caller].val[1].id = PaddedId(1)
  /\ result[Caller].val[2].id = PaddedId(3)

\* C15: parseSheetData returns no record whose owner name or pet name is
\* empty after trimming: a row of blanks only in either cell is excluded.
C15_Claim ==
  (pc[Caller] = "done" /\ op[Caller] = "parseSheetData") =>
    \A k \in 1..Len(result[Caller].val) :
      /\ Trimmed(result[Caller].val[k].name) # ""
      /\ Trimmed(result[Caller].val[k].petName) # ""

\* C19: a call getCustomerById(id) never ends by raising: it returns null
\* when the current record set (the fetched set, or the cache when the
\* fetch failed) has no record of that id, and that record otherwise.
C19_Claim ==
  [][(pc[Caller] # "done" /\ pc'[Caller] = "done"
        /\ op'[Caller] = "getCustomerById") =>
       LET current == IF result'[Caller].fetched THEN ParseSheetData(sheet)
                      ELSE cache'
           id == arg'[Caller].id
       IN
       /\ result'[Caller].kind = "returned"
       /\ IF \E i \in 1..Len(current) : current[i].id = id
          THEN \E i \in 1..Len(current) :
                 current[i].id = id /\ result'[Caller].val = current[i]
          ELSE result'[Caller].val = Null]_vars

\* C16: each of the REST operations list, get, create, update and delete
\* answers a request whose bearer token is missing or is not the configured
\* secret with status 401, carries no customer data in that answer and
\* leaves the stored record set as it was.
C16_Claim ==
  [][\A token \in Tokens \ {"valid"} :
       (\/ RestList(token)
        \/ \E id \in ApiIds : RestGet(token, id)
        \/ \E body \in CreateBodies, saved \in BOOLEAN :
             RestCreate(token, body, saved)
        \/ \E id \in ApiIds, body \in UpdateBodies, saved \in BOOLEAN :
             RestUpdate(token, id, body, saved)
        \/ \E id \in ApiIds, saved \in BOOLEAN : RestDelete(token, id, saved)) =>
         /\ last'.resp.status = "401"
         /\ last'.resp.data = <<>>
         /\ store' = store]_vars

\* C17: an edit or a delete of a stored record that the views send through
\* ApiService to server.js, the file being writable, is accepted, and the
\* stored record set shows it afterwards: the record is the edited one, or
\* is gone.
C17_Claim ==
  [][/\ \A r \in ViewEdits :
          (HandleUpdateCustomer(r, TRUE) /\ apiUrl = "server"
             /\ FindIndex(store, r.id) # -1) =>
            /\ last'.outcome.kind = "returned"
            /\ Find(store', r.id) = r
     /\ \A id \in ApiIds :
          (HandleDeleteConfirm(id, TRUE) /\ apiUrl = "server"
             /\ FindIndex(store, id) # -1) =>
            /\ last'.outcome.kind = "returned"
            /\ FindIndex(store', id) = -1]_vars

\* C18: ApiService.getCustomerById(id), answered by GET /api/customers/:id
\* of server.js for an id that no stored record has, returns null and raises
\* nothing.
C18_Claim ==
  [][\A id \in ApiIds :
       (LoadCustomer(id) /\ apiUrl = "server" /\ FindIndex(store, id) = -1) =>
         /\ last'.outcome.kind = "returned"
         /\ last'.outcome.isNull]_vars

\* C20: when the confirmed delete of the list view has deleted the customer
\* of some id, local photo storage holds no photo owned by that id.
C20_Claim ==
  [][\A id \in ApiIds, saved \in BOOLEAN :
       (HandleDeleteConfirm(id, saved) /\ last'.outcome.kind = "returned") =>
         \A i \in 1..Len(photos') : photos'[i].customerId # id]_vars

\* C21: whatever uploadPhoto, deletePhoto and updatePhotoDescription calls
\* have run, and however they interleave, no customer has more than 50
\* photos in local storage and no stored photo is larger than 5 MB.
C21_Claim ==
  /\ \A i \in 1..Len(photos) :
       Len(SelectSeq(photos, LAMBDA ph : ph.customerId = photos[i].customerId)) <= 50
  /\ \A i \in 1..Len(photos) : photos[i].fileSize <= 5 * 1024 * 1024

\* C22: POST /api/customers with a valid token and an empty or missing
\* name, email, phone or petName is answered 400 and leaves the stored
\* records as they were; with all four present, it appends exactly one
\* record and leaves every stored record as it was.
C22_Original ==
  [][\A body \in CreateBodies, saved \in BOOLEAN :
       RestCreate("valid", body, saved) =>
         IF \E f \in {"name", "email", "phone", "petName"} :
              f \notin DOMAIN body \/ body[f] = ""
         THEN last'.resp.status = "400" /\ store' = store
         ELSE /\ Len(store') = Len(store) + 1
              /\ SubSeq(store', 1, Len(store)) = store]_vars

\* C22, amended: as above, the append being what happens when the data file
\* is written; when the write fails the answer is 500 and the stored records
\* are as they were.
C22_CreateValidated ==
  [][\A body \in CreateBodies, saved \in BOOLEAN :
       RestCreate("valid", body, saved) =>
         IF \E f \in {"name", "email", "phone", "petName"} :
              f \notin DOMAIN body \/ body[f] = ""
         THEN last'.resp.status = "400" /\ store' = store
         ELSE IF saved
         THEN /\ last'.resp.status = "200"
              /\ Len(store') = Len(store) + 1
              /\ SubSeq(store', 1, Len(store)) = store
              /\ \A f \in {"name", "email", "phone", "petName"} :
                   store'[Len(store')][f] = body[f]
         ELSE last'.resp.status = "500" /\ store' = store]_vars

\* A POST with all four fields was just answered 200 and its record is the
\* last one stored.
C22_Witness ==
  /\ last.who = "rest" /\ last.op = "create" /\ last.token = "valid"
  /\ last.resp.status = "200"
  /\ Len(store) > 1
  /\ store[Len(store)].id = last.resp.id

\* C24: a PUT /api/customers/:id that succeeds leaves the record it updated
\* with the id of the path, whatever id the body carries, leaves the number
\* of stored records as it was, and leaves every other record as it was.
C24_IdKept ==
  [][\A id \in ApiIds, body \in UpdateBodies \cup EmptyingBodies,
        saved \in BOOLEAN :
       (RestUpdate("valid", id, body, saved) /\ last'.resp.status = "200") =>
         /\ Len(store') = Len(store)
         /\ \A i \in 1..Len(store) :
              IF store[i].id = id THEN store'[i].id = id
              ELSE store'[i] = store[i]]_vars

\* A PUT whose body carries another id than its path was just answered 200,
\* the record being one of two.
C24_Witness ==
  /\ last.who = "rest" /\ last.op = "update" /\ last.resp.status = "200"
  /\ "id" \in DOMAIN last.body /\ last.body.id # last.id
  /\ Len(store) = 2
  /\ \E i \in 1..Len(store) : store[i].id = last.id /\ store[i].name = "B"

C27_Claim ==
  [][\A body \in CreateBodies :
       (/\ last.op = "delete" /\ last.resp.status = "200"
        /\ RestCreate("valid", body, TRUE)
        /\ last'.resp.status = "200") =>
         last'.resp.id # last.id]_vars

\* C28: every stored record has a non-empty name, email, phone and petName.
C28_Claim ==
  \A i \in 1..Len(store) :
    \A f \in {"name", "email", "phone", "petName"} :
      f \in DOMAIN store[i] /\ store[i][f] # ""

\* C23: after a run of onSubmit, it has sent exactly one POST, with the configured key as
\* bearer token and with the fields taken from columns 1 to 10 in their
\* fixed order, when the name, email, phone and pet name columns are
\* non-empty and an API key is configured; otherwise it has sent nothing.  The
\* payload it sends passes the required-field validation of the backend.
C23_RelayPosts ==
  last.who = "relay" =>
    LET e == last.given.e
        key == last.given.key
    IN IF /\ "values" \in DOMAIN e
          /\ e.values[2] # "" /\ e.values[4] # ""
          /\ e.values[5] # "" /\ e.values[7] # ""
          /\ key # "none"
       THEN /\ last.sent = 1
            /\ last.token = key
            /\ last.body.name = e.values[2]
            /\ last.body.furigana = e.values[3]
            /\ last.body.email = e.values[4]
            /\ last.body.phone = e.values[5]
            /\ last.body.address = e.values[6]
            /\ last.body.petName = e.values[7]
            /\ e.values[8] # "" => last.body.petType = e.values[8]
            /\ e.values[9] = <<3>> => last.body.age = 3
            /\ last.body.weight = 8
            /\ last.body.notes = e.values[11]
            /\ CreateCustomer("valid", last.body, TRUE).resp.status = "200"
       ELSE last.sent = 0 /\ last.body = NoBody

\* The relay has just posted a complete row with the key of the backend and
\* the backend stored it.
C23_Witness ==
  /\ last.who = "relay" /\ last.sent = 1 /\ last.token = "valid"
  /\ last.resp.status = "200"
  /\ last.body.petType = "dog" /\ last.body.age = 3
  /\ store[Len(store)].id = last.resp.id

\* C25: doGet has answered success: true exactly when the submission was
\* delivered, that is, when the backend answered 200; when a required field
\* is missing, no API key is set, the backend answers otherwise or sending
\* raises, it answers success: false.
C25_Claim ==
  last.op = "doGet" => (last.outcome.success <=> last.resp.status = "200")

\* C29: when the 3rd attempt of a cycle fails with a rate-limit error, the
\* cycle sleeps 8000 ms (after the 4000 ms slept before that attempt), makes
\* no 4th attempt and then raises the 'maximum retries reached' error, the
\* cache not being what it hands on; a cycle ends by returning the cache
\* contents itself only in the step where its 3rd attempt fails with an
\* error that is not rate limiting.
C29_LastAttemptRateLimited ==
  [][\A c \in Callers :
       /\ \A reply \in Replies :
            (/\ pc[c] = "fetching" /\ attempt[c] = 3 /\ RateLimitReply(reply)
             /\ AttemptReply(c, reply)) =>
              /\ delay[c] = 4000
              /\ pc'[c] = "backoffWait"
              /\ delay'[c] = 8000 /\ timer'[c] = 8000
              /\ attempt'[c] = 3
              /\ result'[c] = result[c] /\ cache' = cache
       /\ (pc[c] = "backoffWait" /\ attempt[c] = 3 /\ BackoffWake(c)) =>
            /\ elapsed[c] >= 8000
            /\ attempt'[c] = 3
            /\ pc'[c] \in {"done", "putting"}
            /\ result'[c].cycle = "raised"
            /\ result'[c].error = <<"max retries reached">>
       /\ (/\ pc[c] \in {"fetching", "backoffWait"}
           /\ pc'[c] \in {"done", "putting"}
           /\ result'[c].cycle = "returned" /\ ~result'[c].fetched) =>
            /\ attempt[c] = 3
            /\ \E reply \in Replies :
                 AttemptReply(c, reply) /\ OtherFailureReply(reply)]_vars

\* A call of getCustomers whose cycle ended with the 'maximum retries
\* reached' error, 8000 ms after the rate-limit failure of its 3rd attempt.
C29_Witness ==
  \E c \in Callers :
    /\ pc[c] = "done" /\ op[c] = "getCustomers" /\ attempt[c] = 3
    /\ result[c].cycle = "raised"
    /\ result[c].error = <<"max retries reached">>
    /\ delay[c] = 8000 /\ elapsed[c] = 8000

\* C30: in production with the source configured, when a call of
\* deleteCustomerCompletely(id) has removed the record of that id and the
\* remote fetch of a call of getCustomers then succeeds, the source still
\* holding the row of that id, the record is in the cache again and in the
\* set that getCustomers returns.
C30_DeletedComesBack ==
  [][\A c, d \in Callers, reply \in Replies :
       (/\ pc[c] = "fetching" /\ op[c] = "getCustomers" /\ reply.kind = "ok"
        /\ env = "production" /\ spreadsheetId # "" /\ apiKey # ""
        /\ d # c /\ pc[d] = "done" /\ op[d] = "deleteCustomerCompletely"
        /\ FindIndex(cache, arg[d].id) = -1
        /\ FindIndex(ParseSheetData(sheet), arg[d].id) # -1
        /\ AttemptReply(c, reply)) =>
         /\ pc'[c] = "done" /\ result'[c].kind = "returned"
         /\ FindIndex(cache', arg[d].id) # -1
         /\ FindIndex(result'[c].val, arg[d].id) # -1
         /\ Find(cache', arg[d].id) = Find(ParseSheetData(sheet), arg[d].id)]_vars

\* In production, a call deleteCustomerCompletely(C001) has ended, the
\* fetch of a call of getCustomers has succeeded, and C001 is in the cache
\* and in the returned set.
C30_Witness ==
  \E c, d \in Callers :
    /\ env = "production" /\ spreadsheetId # "" /\ apiKey # ""
    /\ d # c /\ pc[d] = "done" /\ op[d] = "deleteCustomerCompletely"
    /\ arg[d].id = PaddedId(1)
    /\ pc[c] = "done" /\ op[c] = "getCustomers" /\ result[c].fetched
    /\ FindIndex(cache, PaddedId(1)) # -1
    /\ FindIndex(result[c].val, PaddedId(1)) # -1

====
